---- MODULE Spec2Model ----
(***************************************************************************)
(* Movie-theater queueing simulation (simulate_movie_theater.py).          *)
(*                                                                         *)
(* The model follows the program at the granularity of one processed       *)
(* event of the SimPy environment (one call of Environment.step): every    *)
(* action pops the earliest event of the event queue and runs, to their    *)
(* next yield, the generator(s) that the event resumes.  Time is counted   *)
(* in whole time units; sampled durations are drawn from bounded integer   *)
(* sets.                                                                   *)
(***************************************************************************)
EXTENDS Integers, Sequences, FiniteSets, TLC

(* ------------------------------ bounds -------------------------------- *)
\* The horizon of a run started directly, env.run(until=Horizon).
Horizon == 5
\* The horizon main is called with (simulation_runs; its default is 50).
SimulationRuns == 10
\* Largest staffing number tried for a pool in a directly started run.
MaxCapacity == 2
\* Largest value the arrival-interval draw takes: with an interval of Horizon
\* or more no customer arrives at all.
MaxInterval == Horizon
\* Largest value the ticket-check draw takes.
MaxCheck == 1
\* Largest random_seed and total_employees main is called with, and the
\* number of calls of main followed.
MaxSeed == 3
MaxTotalEmployees == 6
MaxCalls == 2

(* ------------------------- program constants -------------------------- *)
\* simpy.core priorities of scheduled events.
URGENT == 0
NORMAL == 1

Pools == {"cashier", "usher", "server"}

\* random.randint(1, 3)
TicketSaleOutcomes == <<1, 2, 3>>
\* random.randint(1, 5)
FoodSaleOutcomes == <<1, 2, 3, 4, 5>>
\* random.choice([True, False])
FoodChoiceOutcomes == <<TRUE, FALSE>>
\* random.normalvariate(3/60, 1/60): may be negative.
TicketCheckOutcomes == [i \in 1..(MaxCheck + 2) |-> i - 2]
\* random.normalvariate(12/60, 5/60): may be negative.
ArrivalIntervalOutcomes == [i \in 1..(MaxInterval + 2) |-> i - 2]

VARIABLES
    \* -- the random module
    seeded,       \* TRUE once random.seed() was called
    rng,          \* the generator's state when seeded
    \* -- simpy.Environment
    now,          \* env.now
    eid,          \* env._eid, the next event id
    queue,        \* env._queue, the set of scheduled events
    until,        \* the horizon of env.run(until=...)
    status,       \* env.run: "none" (no environment yet), "running",
                  \* "stopped" (returned), "error" (raised), "cut" (see Cut)
    \* -- run_movie_theater
    params,       \* its arguments n_cashiers, n_servers, n_ushers
    capacity,     \* the capacities of the three Resources of MovieTheater
    users,        \* Resource.users of each pool
    put_queue,    \* Resource.put_queue of each pool
    arrival_interval,
    moviegoer,    \* the next id get_moviegoer yields
    \* -- go_to_movies, one per spawned customer
    cust,
    \* -- module level
    wait_times,
    \* -- the caller and main
    mpc,          \* "idle", "direct" (run started outside main), "for" (at
                  \* the head of main's loop), "run" (in env.run), "failed"
    calls,        \* calls of main so far
    random_seed,
    total_employees,
    simulation_runs,
    perms,        \* what get_parameter_permutation has yet to yield
    best_setup,
    \* -- history (not program state): the requests and grants of each
    \*    pool, and the customers resumed after a service, in order
    poollog,
    resumed,
    \* -- history: the finished runs of main, and the generator state the
    \*    current run started from
    runlog,
    run_rng

envVars == <<now, eid, queue, status, until>>
theaterVars == <<params, capacity, users, put_queue, arrival_interval, moviegoer>>
histVars == <<poollog, resumed>>
mainVars == <<mpc, calls, random_seed, total_employees, simulation_runs, perms, best_setup, runlog, run_rng>>
\* What no step of the environment changes.
callVars == <<seeded, mainVars>>
vars == <<seeded, rng, envVars, theaterVars, cust, wait_times, histVars, mainVars>>

(* ------------------------------ random -------------------------------- *)
\* One step of the seeded generator.
NextRng(r) == (r * 75 + 74) % 65537

\* One draw among `outcomes`: the value and the generator state after it.
\* Unseeded, the generator starts from OS entropy: any outcome.
Random(r, outcomes) ==
    IF seeded
    THEN {[val |-> outcomes[(NextRng(r) % Len(outcomes)) + 1], rng |-> NextRng(r)]}
    ELSE {[val |-> outcomes[i], rng |-> r] : i \in 1..Len(outcomes)}

\* x = normalvariate(...); while x < 0: x = normalvariate(...)
RECURSIVE SeededNonNegative(_, _)
SeededNonNegative(r, outcomes) ==
    LET d == CHOOSE x \in Random(r, outcomes) : TRUE
    IN  IF d.val < 0 THEN SeededNonNegative(d.rng, outcomes) ELSE d

\* (variant) the first draw is kept, negative or not.
FirstDraw(r, outcomes) == Random(r, outcomes)

NonNegative(r, outcomes) ==
    IF seeded
    THEN {SeededNonNegative(r, outcomes)}
    ELSE {d \in Random(r, outcomes) : ~(d.val < 0)}

(* ------------------------------ events -------------------------------- *)
Ev(t, pr, id, k, w, p) ==
    [time |-> t, prio |-> pr, eid |-> id, kind |-> k, who |-> w, pool |-> p]

\* (variant) ties of time and priority go to the event scheduled last.
BeforeLastScheduled(e, f) ==
    \/ e.time < f.time
    \/ e.time = f.time /\ e.prio < f.prio
    \/ e.time = f.time /\ e.prio = f.prio /\ e.eid > f.eid

\* heap order of env._queue: (time, priority, eid)
Before(e, f) ==
    \/ e.time < f.time
    \/ e.time = f.time /\ e.prio < f.prio
    \/ e.time = f.time /\ e.prio = f.prio /\ e.eid < f.eid

\* heappop(env._queue)
Earliest(q) == CHOOSE e \in q : \A f \in q \ {e} : Before(e, f)

Next_ev == Earliest(queue)

\* env.now while the callbacks of the popped event run.
env_now == Next_ev.time

\* Environment.step up to the callbacks: an event of this kind is popped.
Pops(kind) ==
    /\ status = "running"
    /\ queue # {}
    /\ Next_ev.kind = kind

(* ----------------------------- Resource ------------------------------- *)
\* (variant) a unit is handed out when the pool is exactly full.
HasFreeUnitOffByOne(u, p) == Cardinality(u[p]) <= capacity[p]

\* Resource._do_put: is a unit free?
HasFreeUnit(u, p) == Cardinality(u[p]) < capacity[p]

\* (variant) the latest request goes to the front of the wait-list.
EnqueueFront(q, c) == <<c>> \o q

\* Put.__init__: resource.put_queue.append(self)
Enqueue(q, c) == Append(q, c)

\* BaseResource._trigger_put with Resource._do_put: the head of put_queue is
\* granted a unit if one is free; at most one request is looked at.
\* `id` is the event id the granted Request is scheduled with.
TriggerPut(u, q, g, p, id) ==
    IF q[p] # <<>> /\ HasFreeUnit(u, p)
    THEN [users  |-> [u EXCEPT ![p] = @ \cup {Head(q[p])}],
          put_queue |-> [q EXCEPT ![p] = Tail(@)],
          poollog |-> [g EXCEPT ![p] = Append(@, [op |-> "grant", who |-> Head(q[p])])],
          events |-> {Ev(env_now, NORMAL, id, "Request", Head(q[p]), p)},
          n      |-> 1]
    ELSE [users |-> u, put_queue |-> q, poollog |-> g, events |-> {}, n |-> 0]

\* resource.request(): the request joins put_queue, then _trigger_put.
Request(u, q, g, p, c, id) ==
    TriggerPut(u, [q EXCEPT ![p] = Enqueue(@, c)],
               [g EXCEPT ![p] = Append(@, [op |-> "request", who |-> c])], p, id)

\* (variant) leaving the with block gives nothing back.
ReleaseNothing(u, p, c) == u

\* Request.__exit__ -> resource.release(request): Resource._do_get removes
\* the request from users; the Release event is scheduled by the caller.
Release(u, p, c) == [u EXCEPT ![p] = @ \ {c}]

(* --------------------------- go_to_movies ----------------------------- *)
NoTime == 0 - 1

NewCustomer ==
    [pc |-> "start", stage |-> "none", sub |-> "none", arrival_time |-> NoTime,
     reqT   |-> [p \in Pools |-> NoTime],
     startT |-> [p \in Pools |-> NoTime],
     endT   |-> [p \in Pools |-> NoTime],
     dur    |-> [p \in Pools |-> NoTime],
     teid   |-> NoTime,
     slot   |-> 0]

\* (variant) the wait is counted from the start of the ticket purchase.
WaitTimeSinceTicket(c) == env_now - cust[c].startT["cashier"]

\* env.now - arrival_time
WaitTime(c) == env_now - cust[c].arrival_time

\* (variant) the append sits inside the food branch.
SeatedAfterFoodOnly(wt, c) ==
    IF cust[c].dur["server"] = NoTime THEN wt ELSE Append(wt, WaitTime(c))

\* wait_times.append(env.now - arrival_time)
Seated(wt, c) == Append(wt, WaitTime(c))

(* ------------------------- run_movie_theater -------------------------- *)
NoCust == 0 - 1

\* (variant) a capacity of zero is let through.
ValidCapacityOrZero(n) == n >= 0

\* Resource.__init__ raises ValueError unless capacity > 0.
ValidCapacity(n) == n > 0

\* (variant) the second and third positional arguments change places.
MovieTheaterSwapped(n_cashiers, n_ushers, n_servers) ==
    [cashier |-> n_cashiers, usher |-> n_servers, server |-> n_ushers]

\* MovieTheater.__init__(env, n_cashiers, n_ushers, n_servers)
MovieTheater(n_cashiers, n_ushers, n_servers) ==
    [cashier |-> n_cashiers, usher |-> n_ushers, server |-> n_servers]

\* The priority env.run(until=number) schedules its stop event with.
UntilPriority == URGENT

\* (variant) the stop event is scheduled one time unit late.
UntilAtLate == until' + 1

\* The time env.run(until=number) schedules its stop event at.
UntilAt == until'

\* env = Environment(); env.process(run_movie_theater(...)); env.run(until):
\* the Initialize event of the process, then the stop event.
EnvRun ==
    /\ now' = 0
    /\ eid' = 2
    /\ queue' = {Ev(0, URGENT, 0, "InitArrivals", NoCust, "none"),
                 Ev(UntilAt, UntilPriority, 1, "Until", NoCust, "none")}
    /\ status' = "running"
    /\ capacity' = [p \in Pools |-> 0]
    /\ users' = [p \in Pools |-> {}]
    /\ put_queue' = [p \in Pools |-> <<>>]
    /\ arrival_interval' = NoTime
    /\ moviegoer' = 0
    /\ cust' = <<>>
    /\ poollog' = [p \in Pools |-> <<>>]
    /\ resumed' = <<>>

\* What the user may type at one prompt of get_user_input.
Typed == {"", "x", "-1", "0", "1", "2"}

\* str.isdigit, on Typed
isdigit(str) == str \in {"0", "1", "2"}

\* int(x), on the strings of Typed that are digits
int(str) == CASE str = "0" -> 0 [] str = "1" -> 1 [] str = "2" -> 2

\* get_user_input: the staffing numbers, or the defaults when an answer is
\* not made of digits.
get_user_input(num_cashiers, num_servers, num_ushers) ==
    IF isdigit(num_cashiers) /\ isdigit(num_servers) /\ isdigit(num_ushers)
    THEN [n_cashiers |-> int(num_cashiers), n_servers |-> int(num_servers),
          n_ushers |-> int(num_ushers)]
    ELSE [n_cashiers |-> 1, n_servers |-> 1, n_ushers |-> 1]

\* best_setup as main creates it
NoSetup ==
    [avg_wait_time |-> [inf |-> TRUE, sum |-> 0, n |-> 1], wait_times |-> <<>>,
     n_cashiers |-> 0, n_servers |-> 0, n_ushers |-> 0]

\* The module is imported: nothing runs yet, random is not seeded.
Init ==
    /\ seeded = FALSE
    /\ rng = 0
    /\ now = 0
    /\ eid = 0
    /\ queue = {}
    /\ status = "none"
    /\ until = 0
    /\ params = [n_cashiers |-> 0, n_servers |-> 0, n_ushers |-> 0]
    /\ capacity = [p \in Pools |-> 0]
    /\ users = [p \in Pools |-> {}]
    /\ put_queue = [p \in Pools |-> <<>>]
    /\ arrival_interval = NoTime
    /\ moviegoer = 0
    /\ cust = <<>>
    /\ wait_times = <<>>
    /\ poollog = [p \in Pools |-> <<>>]
    /\ resumed = <<>>
    /\ mpc = "idle"
    /\ calls = 0
    /\ random_seed = 0
    /\ total_employees = 0
    /\ simulation_runs = 0
    /\ perms = <<>>
    /\ best_setup = NoSetup
    /\ runlog = <<>>
    /\ run_rng = 0

\* A run started directly (outside main, random not seeded): with the
\* staffing numbers get_user_input returns, or with any numbers a caller
\* passes to run_movie_theater.
DirectRun ==
    /\ mpc = "idle"
    /\ calls = 0
    /\ \/ \E a \in Typed, b \in Typed, c \in Typed : params' = get_user_input(a, b, c)
       \/ params' \in [n_cashiers : (0 - 1)..MaxCapacity,
                       n_servers  : (0 - 1)..MaxCapacity,
                       n_ushers   : (0 - 1)..MaxCapacity]
    /\ mpc' = "direct"
    /\ until' = Horizon
    /\ EnvRun
    /\ UNCHANGED <<seeded, rng, wait_times, calls, random_seed, total_employees,
                   simulation_runs, perms, best_setup, runlog, run_rng>>

\* What one step leaves of the queue, plus what it schedules.
Scheduled(events) == (queue \ {Next_ev}) \cup events

\* First resumption of run_movie_theater: the theater is built, the arrival
\* interval sampled, the first arrival timeout scheduled.
RunMovieTheaterStart ==
    /\ Pops("InitArrivals")
    /\ ValidCapacity(params.n_cashiers)
    /\ ValidCapacity(params.n_ushers)
    /\ ValidCapacity(params.n_servers)
    /\ now' = env_now
    /\ capacity' = MovieTheater(params.n_cashiers, params.n_ushers, params.n_servers)
    /\ \E d \in NonNegative(rng, ArrivalIntervalOutcomes) :
          /\ arrival_interval' = d.val
          /\ rng' = d.rng
          /\ queue' = Scheduled({Ev(env_now + d.val, NORMAL, eid, "Arrival", NoCust, "none")})
    /\ eid' = eid + 1
    /\ UNCHANGED <<callVars, status, until, params, users, put_queue, moviegoer, cust,
                   wait_times, histVars>>

\* First resumption of run_movie_theater with a capacity <= 0: Resource()
\* raises, the process fails and its event is scheduled as failed.
RunMovieTheaterConfigError ==
    /\ Pops("InitArrivals")
    /\ ~ /\ ValidCapacity(params.n_cashiers)
         /\ ValidCapacity(params.n_ushers)
         /\ ValidCapacity(params.n_servers)
    /\ now' = env_now
    /\ queue' = Scheduled({Ev(env_now, NORMAL, eid, "Failed", NoCust, "none")})
    /\ eid' = eid + 1
    /\ UNCHANGED <<callVars, rng, status, until, theaterVars, cust, wait_times, histVars>>

\* Environment.step on a failed, undefused event: the exception leaves
\* env.run.
ProcessFailed ==
    /\ Pops("Failed")
    /\ now' = env_now
    /\ queue' = Scheduled({})
    /\ status' = "error"
    /\ UNCHANGED <<callVars, rng, eid, until, theaterVars, cust, wait_times, histVars>>

\* (variant) the arrival loop waits for a timeout of zero.
NextArrivalAtOnce == env_now

\* yield env.timeout(arrival_interval): when the next arrival is due.
NextArrival == env_now + arrival_interval

\* Customers followed in one run.  With an arrival interval of at least one
\* time unit fewer than `until` customers arrive before the horizon; only a
\* run whose interval is 0 (which spawns customers for ever at time 0)
\* reaches the bound, and is followed no further.
MaxCustomers == until - 1

\* The arrival timeout expires: a customer process is spawned and the next
\* arrival timeout scheduled.
Arrival ==
    /\ Pops("Arrival")
    /\ moviegoer < MaxCustomers
    /\ now' = env_now
    /\ cust' = [i \in 0..moviegoer |-> IF i < moviegoer THEN cust[i] ELSE NewCustomer]
    /\ moviegoer' = moviegoer + 1
    /\ queue' = Scheduled({Ev(env_now, URGENT, eid, "InitCustomer", moviegoer, "none"),
                           Ev(NextArrival, NORMAL, eid + 1, "Arrival",
                              NoCust, "none")})
    /\ eid' = eid + 2
    /\ UNCHANGED <<callVars, rng, status, until, params, capacity, users, put_queue,
                   arrival_interval, wait_times, histVars>>

\* The model's bound on customers is reached: the run is followed no further.
Cut ==
    /\ Pops("Arrival")
    /\ ~(moviegoer < MaxCustomers)
    /\ status' = "cut"
    /\ UNCHANGED <<callVars, rng, now, eid, queue, until, theaterVars, cust, wait_times, histVars>>

\* First resumption of go_to_movies: arrival_time, then the cashier request.
GoToMoviesStart ==
    /\ Pops("InitCustomer")
    /\ LET c == Next_ev.who
           r == Request(users, put_queue, poollog, "cashier", c, eid)
       IN  /\ now' = env_now
           /\ cust' = [cust EXCEPT ![c].pc = "request", ![c].stage = "cashier",
                                   ![c].arrival_time = env_now,
                                   ![c].reqT["cashier"] = env_now]
           /\ users' = r.users
           /\ put_queue' = r.put_queue
           /\ poollog' = r.poollog
           /\ queue' = Scheduled(r.events)
           /\ eid' = eid + r.n
    /\ UNCHANGED <<callVars, rng, status, until, params, capacity, arrival_interval, moviegoer,
                   wait_times, resumed>>

\* A granted Request is processed: go_to_movies resumes inside the with
\* block and starts the service as a process of its own.
RequestProcessed ==
    /\ Pops("Request")
    /\ LET c == Next_ev.who
           p == Next_ev.pool
       IN  /\ now' = env_now
           /\ cust' = [cust EXCEPT ![c].pc = "service", ![c].sub = "init",
                                   ![c].startT[p] = env_now]
           /\ queue' = Scheduled({Ev(env_now, URGENT, eid, "InitService", c, p)})
           /\ eid' = eid + 1
    /\ UNCHANGED <<callVars, rng, status, until, theaterVars, wait_times, histVars>>

\* sell_ticket, check_ticket, sell_food: the duration each samples.
ServiceDuration(r, p) ==
    CASE p = "cashier" -> Random(r, TicketSaleOutcomes)
      [] p = "usher"   -> NonNegative(r, TicketCheckOutcomes)
      [] p = "server"  -> Random(r, FoodSaleOutcomes)

\* First resumption of the service process: it samples its duration and
\* waits for the timeout.
ServiceStart ==
    /\ Pops("InitService")
    /\ LET c == Next_ev.who
           p == Next_ev.pool
       IN  /\ now' = env_now
           /\ \E d \in ServiceDuration(rng, p) :
                 /\ rng' = d.rng
                 /\ cust' = [cust EXCEPT ![c].sub = "timeout", ![c].dur[p] = d.val,
                                         ![c].teid = eid]
                 /\ queue' = Scheduled({Ev(env_now + d.val, NORMAL, eid, "Timeout", c, p)})
           /\ eid' = eid + 1
    /\ UNCHANGED <<callVars, status, until, theaterVars, wait_times, histVars>>

\* The service timeout expires: the service process ends and its own event
\* is scheduled.
ServiceTimeout ==
    /\ Pops("Timeout")
    /\ LET c == Next_ev.who
           p == Next_ev.pool
       IN  /\ now' = env_now
           /\ cust' = [cust EXCEPT ![c].sub = "ended"]
           /\ queue' = Scheduled({Ev(env_now, NORMAL, eid, "ServiceEnded", c, p)})
           /\ eid' = eid + 1
    /\ UNCHANGED <<callVars, rng, status, until, theaterVars, wait_times, histVars>>

\* go_to_movies resumes after a service: what the history keeps of it.
Resumed(c) == Append(resumed, [who |-> c, time |-> env_now, teid |-> cust[c].teid])

\* go_to_movies leaves a with block and enters the next: the unit of `p` is
\* released, then a unit of `nxt` requested.
NextStage(c, p, nxt) ==
    LET r == Request(Release(users, p, c), put_queue, poollog, nxt, c, eid + 1)
    IN  /\ now' = env_now
        /\ cust' = [cust EXCEPT ![c].pc = "request", ![c].stage = nxt, ![c].sub = "none",
                                ![c].endT[p] = env_now, ![c].reqT[nxt] = env_now]
        /\ users' = r.users
        /\ put_queue' = r.put_queue
        /\ poollog' = r.poollog
        /\ resumed' = Resumed(c)
        /\ queue' = Scheduled({Ev(env_now, NORMAL, eid, "Release", c, p)} \cup r.events)
        /\ eid' = eid + 1 + r.n
        /\ UNCHANGED <<status, until, params, capacity, arrival_interval, moviegoer, wait_times>>

\* go_to_movies leaves its last with block: the unit of `p` is released, the
\* wait time recorded, and the process ends.
LastStage(c, p) ==
    /\ now' = env_now
    /\ cust' = [cust EXCEPT ![c].pc = "seated", ![c].stage = "none", ![c].sub = "none",
                            ![c].endT[p] = env_now,
                            ![c].slot = Len(wait_times) + 1]
    /\ users' = Release(users, p, c)
    /\ wait_times' = Seated(wait_times, c)
    /\ resumed' = Resumed(c)
    /\ queue' = Scheduled({Ev(env_now, NORMAL, eid, "Release", c, p),
                           Ev(env_now, NORMAL, eid + 1, "CustomerEnded", c, "none")})
    /\ eid' = eid + 2
    /\ UNCHANGED <<status, until, params, capacity, put_queue, arrival_interval, moviegoer,
                   poollog>>

CashierDone ==
    /\ Pops("ServiceEnded")
    /\ Next_ev.pool = "cashier"
    /\ NextStage(Next_ev.who, "cashier", "usher")
    /\ UNCHANGED <<callVars, rng>>

UsherDoneFood ==
    /\ Pops("ServiceEnded")
    /\ Next_ev.pool = "usher"
    /\ \E d \in Random(rng, FoodChoiceOutcomes) :
          /\ d.val
          /\ rng' = d.rng
    /\ NextStage(Next_ev.who, "usher", "server")
    /\ UNCHANGED callVars

UsherDoneNoFood ==
    /\ Pops("ServiceEnded")
    /\ Next_ev.pool = "usher"
    /\ \E d \in Random(rng, FoodChoiceOutcomes) :
          /\ ~d.val
          /\ rng' = d.rng
    /\ LastStage(Next_ev.who, "usher")
    /\ UNCHANGED callVars

ServerDone ==
    /\ Pops("ServiceEnded")
    /\ Next_ev.pool = "server"
    /\ LastStage(Next_ev.who, "server")
    /\ UNCHANGED <<callVars, rng>>

\* (variant) the Release event has no callback: nobody is granted the unit.
ReleaseProcessedNoGrant ==
    /\ Pops("Release")
    /\ now' = env_now
    /\ queue' = Scheduled({})
    /\ UNCHANGED <<callVars, rng, eid, status, until, theaterVars, cust, wait_times, histVars>>

\* A Release event is processed: its callback _trigger_put grants the freed
\* unit to the head of the wait-list.
ReleaseProcessed ==
    /\ Pops("Release")
    /\ LET r == TriggerPut(users, put_queue, poollog, Next_ev.pool, eid)
       IN  /\ now' = env_now
           /\ users' = r.users
           /\ put_queue' = r.put_queue
           /\ poollog' = r.poollog
           /\ queue' = Scheduled(r.events)
           /\ eid' = eid + r.n
    /\ UNCHANGED <<callVars, rng, status, until, params, capacity, arrival_interval, moviegoer,
                   cust, wait_times, resumed>>

\* The event of an ended go_to_movies process: nobody waits for it.
CustomerEnded ==
    /\ Pops("CustomerEnded")
    /\ now' = env_now
    /\ queue' = Scheduled({})
    /\ UNCHANGED <<callVars, rng, eid, status, until, theaterVars, cust, wait_times, histVars>>

\* The stop event of env.run(until): StopSimulation, env.run returns.
Until ==
    /\ Pops("Until")
    /\ now' = env_now
    /\ queue' = Scheduled({})
    /\ status' = "stopped"
    /\ UNCHANGED <<callVars, rng, eid, until, theaterVars, cust, wait_times, histVars>>

\* Environment.step
Step ==
    \/ RunMovieTheaterStart
    \/ RunMovieTheaterConfigError
    \/ ProcessFailed
    \/ Arrival
    \/ Cut
    \/ GoToMoviesStart
    \/ RequestProcessed
    \/ ServiceStart
    \/ ServiceTimeout
    \/ CashierDone
    \/ UsherDoneFood
    \/ UsherDoneNoFood
    \/ ServerDone
    \/ ReleaseProcessed
    \/ CustomerEnded
    \/ Until

(* -------------------------------- main -------------------------------- *)
\* range(a, b)
range(a, b) == [i \in 1..(IF b > a THEN b - a ELSE 0) |-> a + i - 1]

RECURSIVE Chain(_)
Chain(seqs) == IF seqs = <<>> THEN <<>> ELSE Head(seqs) \o Chain(Tail(seqs))

\* get_parameter_permutation: the triples (num_cashiers, num_servers,
\* num_ushers) in the order the three nested loops yield them.
get_parameter_permutation(total) ==
    Chain([i \in 1..Len(range(1, total - 1)) |->
        LET num_cashiers == range(1, total - 1)[i]
            servers_and_ushers == total - num_cashiers
        IN  Chain([j \in 1..Len(range(1, servers_and_ushers)) |->
                LET num_servers == range(1, servers_and_ushers)[j]
                    possible_ushers == servers_and_ushers - num_servers
                IN  [k \in 1..Len(range(1, possible_ushers)) |->
                        <<num_cashiers, num_servers, range(1, possible_ushers)[k]>>]])])

RECURSIVE SumSeq(_)
SumSeq(seq) == IF seq = <<>> THEN 0 ELSE Head(seq) + SumSeq(Tail(seq))

\* statistics.mean(times), kept as a fraction
mean(times) == [inf |-> FALSE, sum |-> SumSeq(times), n |-> Len(times)]

\* (variant) a run that ties with the best one replaces it.
LessOrEqual(a, b) == b.inf \/ a.sum * b.n <= b.sum * a.n

\* avg_wait_time < best_setup["avg_wait_time"]
Less(a, b) == b.inf \/ a.sum * b.n < b.sum * a.n

\* main is called: random.seed(random_seed), best_setup, the generator.
MainCall ==
    /\ mpc = "idle"
    /\ calls < MaxCalls
    /\ \E s \in 0..MaxSeed, t \in 3..MaxTotalEmployees :
          /\ random_seed' = s
          /\ total_employees' = t
          /\ rng' = s
          /\ perms' = get_parameter_permutation(t)
    /\ simulation_runs' = SimulationRuns
    /\ seeded' = TRUE
    /\ best_setup' = NoSetup
    /\ mpc' = "for"
    /\ calls' = calls + 1
    /\ UNCHANGED <<envVars, theaterVars, cust, wait_times, histVars, runlog, run_rng>>

\* (variant) the list of the previous run is kept.
KeptWaitTimes == wait_times

\* wait_times = []
NewWaitTimes == <<>>

\* One more triple: wait_times is a new list, a new environment runs.
ForNext ==
    /\ mpc = "for"
    /\ perms # <<>>
    /\ params' = [n_cashiers |-> Head(perms)[1], n_servers |-> Head(perms)[2],
                  n_ushers |-> Head(perms)[3]]
    /\ perms' = Tail(perms)
    /\ wait_times' = NewWaitTimes
    /\ until' = simulation_runs
    /\ EnvRun
    /\ run_rng' = rng
    /\ mpc' = "run"
    /\ UNCHANGED <<seeded, rng, calls, random_seed, total_employees, simulation_runs,
                   best_setup, runlog>>

\* What the history keeps of a finished run.
RunRecord ==
    [call |-> calls, seed |-> random_seed, total |-> total_employees,
     horizon |-> simulation_runs, params |-> params,
     rng |-> run_rng, wait_times |-> wait_times]

\* env.run has returned with wait times recorded: their mean, and best_setup
\* replaced when the mean is smaller.
AfterRun ==
    /\ mpc = "run"
    /\ status = "stopped"
    /\ wait_times # <<>>
    /\ best_setup' =
          IF Less(mean(wait_times), best_setup.avg_wait_time)
          THEN [avg_wait_time |-> mean(wait_times), wait_times |-> wait_times,
                n_cashiers |-> params.n_cashiers, n_servers |-> params.n_servers,
                n_ushers |-> params.n_ushers]
          ELSE best_setup
    /\ runlog' = Append(runlog, RunRecord)
    /\ mpc' = "for"
    /\ UNCHANGED <<seeded, rng, envVars, theaterVars, cust, wait_times, histVars, calls,
                   random_seed, total_employees, simulation_runs, perms, run_rng>>

\* env.run has returned with no wait time recorded: statistics.mean raises
\* StatisticsError, which leaves main.
AfterRunNoSample ==
    /\ mpc = "run"
    /\ status = "stopped"
    /\ wait_times = <<>>
    /\ runlog' = Append(runlog, RunRecord)
    /\ mpc' = "failed"
    /\ UNCHANGED <<seeded, rng, envVars, theaterVars, cust, wait_times, histVars, calls,
                   random_seed, total_employees, simulation_runs, perms, best_setup, run_rng>>

\* The loop is over: get_average_wait_time(best_setup["wait_times"]) and the
\* report; main returns.
MainReturns ==
    /\ mpc = "for"
    /\ perms = <<>>
    /\ best_setup.wait_times # <<>>
    /\ mpc' = "idle"
    /\ UNCHANGED <<seeded, rng, envVars, theaterVars, cust, wait_times, histVars, calls,
                   random_seed, total_employees, simulation_runs, perms, best_setup, runlog, run_rng>>

\* The loop is over and never ran: the mean of the empty best_setup list
\* raises StatisticsError.
MainNoSetup ==
    /\ mpc = "for"
    /\ perms = <<>>
    /\ best_setup.wait_times = <<>>
    /\ mpc' = "failed"
    /\ UNCHANGED <<seeded, rng, envVars, theaterVars, cust, wait_times, histVars, calls,
                   random_seed, total_employees, simulation_runs, perms, best_setup, runlog, run_rng>>

Next ==
    \/ Step
    \/ DirectRun
    \/ MainCall
    \/ ForNext
    \/ AfterRun
    \/ AfterRunNoSample
    \/ MainReturns
    \/ MainNoSetup

Spec == Init /\ [][Next]_vars

\* env.run keeps calling step while events are scheduled.
FairSpec == Spec /\ WF_vars(Step)

(* ============================== claims ================================ *)
Customers == DOMAIN cust

\* Positions of a customer's request and grant in the history of pool p
\* (0: none yet).  A customer requests each pool at most once.
PosOf(p, op, c) ==
    IF \E i \in 1..Len(poollog[p]) : poollog[p][i] = [op |-> op, who |-> c]
    THEN CHOOSE i \in 1..Len(poollog[p]) : poollog[p][i] = [op |-> op, who |-> c]
    ELSE 0

\* The stages a customer has sampled a duration for, and their sum.
Drawn(c) == {p \in Pools : cust[c].dur[p] # NoTime}
ServiceSum(c) ==
    (IF "cashier" \in Drawn(c) THEN cust[c].dur["cashier"] ELSE 0)
    + (IF "usher" \in Drawn(c) THEN cust[c].dur["usher"] ELSE 0)
    + (IF "server" \in Drawn(c) THEN cust[c].dur["server"] ELSE 0)

\* The time a customer spent between issuing a request and resuming with
\* the unit, over the stages it has entered.
BlockedOn(c, p) == IF cust[c].startT[p] = NoTime THEN 0 ELSE cust[c].startT[p] - cust[c].reqT[p]
BlockedSum(c) == BlockedOn(c, "cashier") + BlockedOn(c, "usher") + BlockedOn(c, "server")

\* The stage a seated customer went through last, and when it ended.
LastPool(c) == IF cust[c].endT["server"] # NoTime THEN "server" ELSE "usher"
CompletionTime(c) == cust[c].endT[LastPool(c)]

InvalidParams ==
    \/ params.n_cashiers <= 0
    \/ params.n_servers <= 0
    \/ params.n_ushers <= 0

\* C1: in every reachable state each pool holds between 0 and capacity units.
HeldWithinCapacity ==
    \A p \in Pools :
        /\ Cardinality(users[p]) >= 0
        /\ Cardinality(users[p]) <= capacity[p]

\* C1 witness: a pool of two units is full while a customer waits for it.
HeldWithinCapacity_witness ==
    \E p \in Pools :
        /\ capacity[p] = 2
        /\ Cardinality(users[p]) = 2
        /\ put_queue[p] # <<>>

\* C2: of two customers blocked on the same pool at the same time, the one
\* that issued its request first is granted first: if B requested after A
\* while A was still waiting, and B holds a grant, then A was granted before B.
FifoGrants ==
    \A p \in Pools : \A a \in Customers, b \in Customers :
        LET ra == PosOf(p, "request", a)
            rb == PosOf(p, "request", b)
            ga == PosOf(p, "grant", a)
            gb == PosOf(p, "grant", b)
        IN  (/\ ra > 0
             /\ ra < rb
             /\ (ga = 0 \/ ga > rb)
             /\ gb > 0)
            => (ga > 0 /\ ga < gb)

\* C2 witness: A and B were blocked on a pool together and both were granted.
FifoGrants_witness ==
    \E p \in Pools : \E a \in Customers, b \in Customers :
        /\ PosOf(p, "request", a) > 0
        /\ PosOf(p, "request", a) < PosOf(p, "request", b)
        /\ PosOf(p, "request", b) < PosOf(p, "grant", a)
        /\ PosOf(p, "grant", a) < PosOf(p, "grant", b)

\* C3: the wait time recorded for a completed customer is its completion time
\* minus its arrival time, and is the sum of its own sampled service
\* durations plus the time it spent blocked; so it is at least that sum.
WaitIsServicePlusBlocked ==
    \A c \in Customers :
        cust[c].pc = "seated" =>
            /\ cust[c].slot \in 1..Len(wait_times)
            /\ wait_times[cust[c].slot] = CompletionTime(c) - cust[c].arrival_time
            /\ wait_times[cust[c].slot] = ServiceSum(c) + BlockedSum(c)
            /\ wait_times[cust[c].slot] >= ServiceSum(c)

\* C3 witness: a customer that was blocked for a while has completed, and so
\* has one that bought food.
WaitIsServicePlusBlocked_witness ==
    /\ \E c \in Customers : cust[c].pc = "seated" /\ BlockedSum(c) > 0
    /\ \E c \in Customers : cust[c].pc = "seated" /\ cust[c].dur["server"] # NoTime

\* C4: wait_times holds exactly one entry per customer that reached the end of
\* go_to_movies, none for a customer still on its way when the run stops, and
\* stopping with customers on their way is not an error.
OneEntryPerCompleted ==
    LET seated == {c \in Customers : cust[c].pc = "seated"}
    IN  /\ Len(wait_times) = Cardinality(seated)
        /\ \A c \in seated : cust[c].slot \in 1..Len(wait_times)
        /\ \A c \in seated, d \in seated : c # d => cust[c].slot # cust[d].slot
        /\ \A c \in Customers \ seated : cust[c].slot = 0
        /\ status = "error" => InvalidParams

\* C4 witness: the run has stopped, a customer has completed and another was
\* abandoned in the middle of a service.
OneEntryPerCompleted_witness ==
    /\ status = "stopped"
    /\ \E c \in Customers : cust[c].pc = "seated"
    /\ \E c \in Customers : cust[c].pc = "service"

\* C5 (as claimed): when the run stops every event at or before the horizon
\* has been processed, those at exactly the horizon included.
ProcessedThroughHorizon ==
    status = "stopped" => \A e \in queue : e.time > until

\* C5 (amended): the run processes exactly the events scheduled strictly
\* before the horizon: while it runs the clock is below the horizon, and when
\* it stops the clock is the horizon, what is left is scheduled at or after
\* it, and every recorded customer completed before it.
ProcessedBeforeHorizon ==
    /\ status = "running" => now < until
    /\ status = "stopped" =>
          /\ now = until
          /\ \A e \in queue : e.time >= until
          /\ \A c \in Customers : cust[c].pc = "seated" => CompletionTime(c) < until

\* C5 witness: the run has stopped and the service of a customer that would
\* have ended exactly at the horizon is still pending.
ProcessedBeforeHorizon_witness ==
    /\ status = "stopped"
    /\ \E e \in queue : e.kind = "Timeout" /\ e.time = until

\* C6 (as claimed): any two runs with the same capacities, seed and horizon
\* record the same ordered wait_times, whichever triples main simulated
\* before them.
SameInputsSameWaitTimes ==
    \A i \in 1..Len(runlog), j \in 1..Len(runlog) :
        (/\ runlog[i].seed = runlog[j].seed
         /\ runlog[i].horizon = runlog[j].horizon
         /\ runlog[i].params = runlog[j].params)
        => runlog[i].wait_times = runlog[j].wait_times

\* C7: with a capacity that is zero or negative the run fails at time 0,
\* before any customer is spawned, any request queued or any wait time
\* recorded; nothing else can happen to it.
InvalidCapacityFailsFast ==
    (status # "none" /\ InvalidParams) =>
        /\ now = 0
        /\ moviegoer = 0
        /\ wait_times = <<>>
        /\ \A p \in Pools : put_queue[p] = <<>> /\ users[p] = {}
        /\ \/ status = "error"
           \/ status = "running" /\ queue # {} /\ Next_ev.kind \in {"InitArrivals", "Failed"}

\* C7 witness: the run of a staffing with no usher has raised.
InvalidCapacityFailsFast_witness ==
    /\ params.n_ushers = 0
    /\ params.n_cashiers > 0
    /\ status = "error"

SingleStaff == params = [n_cashiers |-> 1, n_servers |-> 1, n_ushers |-> 1]

\* The first customer, never blocked, is still in a service whose end falls
\* on the horizon or after it.
FirstCustomerOverruns ==
    /\ 0 \in Customers
    /\ cust[0].pc = "service"
    /\ cust[0].sub = "timeout"
    /\ BlockedSum(0) = 0
    /\ cust[0].arrival_time = arrival_interval
    /\ arrival_interval + ServiceSum(0) >= until

TicketSalesInArrivalOrder ==
    capacity["cashier"] = 1 =>
        \A a \in Customers, b \in Customers :
            (/\ a < b
             /\ cust[b].startT["cashier"] # NoTime)
            => /\ cust[a].arrival_time # NoTime
               /\ cust[a].arrival_time <= cust[b].arrival_time
               /\ cust[a].endT["cashier"] # NoTime
               /\ cust[b].startT["cashier"] >= cust[a].endT["cashier"]

\* C9 witness: with one cashier, the second customer arrived during the
\* first one's purchase and has started its own.
TicketSalesInArrivalOrder_witness ==
    /\ capacity["cashier"] = 1
    /\ 1 \in Customers
    /\ cust[1].startT["cashier"] # NoTime
    /\ cust[1].arrival_time < cust[0].endT["cashier"]
    /\ cust[0].arrival_time < cust[1].arrival_time

\* C10 (as claimed): customers whose service timeouts expire at the same
\* instant are resumed in spawn order, lower id first.
TiesResumeInSpawnOrder ==
    \A i \in 1..Len(resumed), j \in 1..Len(resumed) :
        (/\ i < j
         /\ resumed[i].time = resumed[j].time
         /\ resumed[i].who # resumed[j].who)
        => resumed[i].who < resumed[j].who

\* C10 (amended): customers whose service timeouts expire at the same instant
\* are resumed in the order in which the timeouts were requested.
TiesResumeInRequestOrder ==
    \A i \in 1..Len(resumed), j \in 1..Len(resumed) :
        (/\ i < j
         /\ resumed[i].time = resumed[j].time)
        => resumed[i].teid < resumed[j].teid

\* C10 witness: two customers were resumed at the same instant, the one
\* spawned later first.
TiesResumeInRequestOrder_witness ==
    \E i \in 1..Len(resumed), j \in 1..Len(resumed) :
        /\ i < j
        /\ resumed[i].time = resumed[j].time
        /\ resumed[i].who > resumed[j].who

\* C11: within a run the arrival interval is sampled once and reused for
\* every gap: customer ids are 0, 1, 2, ... without gap or reuse, customer k
\* is spawned (and notes its arrival) at time (k+1) * interval, and nobody is
\* spawned at time 0 unless the interval is 0.
ArrivalsEvenlySpaced ==
    /\ Customers = 0..(moviegoer - 1)
    /\ \A k \in Customers :
          /\ cust[k].pc = "start" => now = (k + 1) * arrival_interval
          /\ cust[k].pc # "start" => cust[k].arrival_time = (k + 1) * arrival_interval
          /\ (cust[k].arrival_time = 0 \/ (cust[k].pc = "start" /\ now = 0))
                => arrival_interval = 0

\* C11 witness: the third customer of a run with a positive interval has
\* arrived.
ArrivalsEvenlySpaced_witness ==
    /\ arrival_interval > 0
    /\ 2 \in Customers
    /\ cust[2].arrival_time = 3 * arrival_interval

\* The stages whose service duration a customer has handed to env.timeout.
Timed(c) ==
    {p \in Pools : \/ cust[c].endT[p] # NoTime
                   \/ cust[c].stage = p /\ cust[c].sub \in {"timeout", "ended"}}

\* The arrival loop has handed its interval to env.timeout.
ArrivalTimed == moviegoer > 0 \/ \E e \in queue : e.kind = "Arrival"

\* C12: every duration handed to the scheduler is non-negative: the arrival
\* interval and the ticket check are >= 0, the ticket sale is in 1..3 and the
\* food sale in 1..5; no event is scheduled in the past, and the clock of a
\* run never decreases.
DurationsNonNegative ==
    /\ [](/\ ArrivalTimed => arrival_interval >= 0
          /\ \A c \in Customers :
                /\ "cashier" \in Timed(c) => cust[c].dur["cashier"] \in 1..3
                /\ "usher" \in Timed(c) => cust[c].dur["usher"] >= 0
                /\ "server" \in Timed(c) => cust[c].dur["server"] \in 1..5
          /\ \A e \in queue : e.time >= now)
    /\ [][status = "running" => now' >= now]_vars

\* C12 witness: a customer was served with a ticket check of duration 0, the
\* longest ticket sale and the longest food sale.
DurationsNonNegative_witness ==
    \E c \in Customers :
        /\ Timed(c) = Pools
        /\ cust[c].dur["usher"] = 0
        /\ cust[c].dur["cashier"] = 3
        /\ cust[c].dur["server"] = 5

\* The triples of positive integers whose sum is at most n.
TriplesUpTo(n) ==
    {t \in (1..n) \X (1..n) \X (1..n) : t[1] + t[2] + t[3] <= n}

\* What get_parameter_permutation yields for the total main was called with.
Yielded == get_parameter_permutation(total_employees)

\* C13 (as claimed): get_parameter_permutation(total_employees) yields, each
\* exactly once, every triple of positive integers whose sum is at most
\* total_employees, and nothing else.
YieldsTriplesUpToTotal ==
    calls > 0 =>
        /\ {Yielded[i] : i \in 1..Len(Yielded)} = TriplesUpTo(total_employees)
        /\ \A i \in 1..Len(Yielded), j \in 1..Len(Yielded) :
              Yielded[i] = Yielded[j] => i = j

IsPrefix(s, t) == Len(s) <= Len(t) /\ \A i \in 1..Len(s) : s[i] = t[i]

\* C14: the wait-time logs of main's runs are isolated: the log is empty when
\* a run starts, only grows by appends while the run lasts, holds exactly the
\* samples of the customers of that run, and the list kept in best_setup
\* changes only when a finished run has a strictly smaller mean, to the log
\* of that run.
WaitTimesIsolated ==
    /\ [](mpc = "run" =>
            Len(wait_times) = Cardinality({c \in Customers : cust[c].pc = "seated"}))
    /\ [][(mpc # "run" /\ mpc' = "run") => wait_times' = <<>>]_vars
    /\ [][(mpc = "run" /\ mpc' = "run") => IsPrefix(wait_times, wait_times')]_vars
    /\ [][(mpc = "run" /\ mpc' # "run") => wait_times' = wait_times]_vars
    /\ [][(best_setup' # best_setup /\ calls' = calls) =>
              /\ mpc = "run"
              /\ mpc' = "for"
              /\ Less(mean(wait_times), best_setup.avg_wait_time)
              /\ best_setup'.wait_times = wait_times]_vars

\* C14 witness: main is back at the head of its loop after a run that recorded
\* wait times without improving on best_setup, which still holds the log of
\* an earlier run.
WaitTimesIsolated_witness ==
    /\ mpc = "for"
    /\ Len(runlog) >= 2
    /\ runlog[Len(runlog)].call = calls
    /\ wait_times = runlog[Len(runlog)].wait_times
    /\ wait_times # <<>>
    /\ best_setup.wait_times # <<>>
    /\ best_setup.wait_times # wait_times

\* The pools a customer holds a unit of, and those it waits for.
Holding(c) == {p \in Pools : c \in users[p]}
Waiting(c) == {p \in Pools : \E i \in 1..Len(put_queue[p]) : put_queue[p][i] = c}

\* Stage q of a customer comes after the whole of stage p: q is requested
\* only when p was served to its end and its unit given back.
After(c, p, q) ==
    cust[c].reqT[q] # NoTime =>
        /\ cust[c].endT[p] # NoTime
        /\ cust[c].reqT[p] <= cust[c].startT[p]
        /\ cust[c].startT[p] <= cust[c].endT[p]
        /\ cust[c].endT[p] <= cust[c].reqT[q]
        /\ p \notin Holding(c) \cup Waiting(c)
        /\ PosOf(p, "grant", c) > 0
        /\ PosOf(q, "request", c) > 0

\* C15: every customer goes through cashier, then usher, then optionally the
\* food server, then records its wait time: a stage is requested only after
\* the unit of the previous one was released, neither ticket purchase nor
\* ticket check is skipped, and a customer holds or waits for at most one
\* unit at any instant.
StagesInOrder ==
    \A c \in Customers :
        /\ After(c, "cashier", "usher")
        /\ After(c, "usher", "server")
        /\ cust[c].pc # "start" => cust[c].reqT["cashier"] = cust[c].arrival_time
        /\ cust[c].pc = "seated" =>
              /\ cust[c].endT["cashier"] # NoTime
              /\ cust[c].endT["usher"] # NoTime
              /\ cust[c].reqT["server"] # NoTime => cust[c].endT["server"] # NoTime
              /\ Holding(c) \cup Waiting(c) = {}
        /\ Cardinality(Holding(c)) + Cardinality(Waiting(c)) <= 1
        /\ Holding(c) \cap Waiting(c) = {}

\* C15 witness: one customer is seated after all three stages, another after
\* two, and a third is waiting for a unit.
StagesInOrder_witness ==
    /\ \E c \in Customers : cust[c].pc = "seated" /\ cust[c].endT["server"] # NoTime
    /\ \E c \in Customers : cust[c].pc = "seated" /\ cust[c].reqT["server"] = NoTime
    /\ \E c \in Customers : Waiting(c) # {}

\* The free units of a pool, and the Release events of it still to be
\* processed at the current time.
Free(p) == capacity[p] - Cardinality(users[p])
PendingReleases(p) == {e \in queue : e.kind = "Release" /\ e.pool = p /\ e.time = now}

\* Some pool has a free unit and a customer waiting for it.
Idling == \E p \in Pools : Free(p) > 0 /\ put_queue[p] # <<>>

\* C16: pools are work-conserving: while a pool has free units and customers
\* waiting, as many releases of it are still to be processed at the current
\* time as there are units to hand out, so the head of the wait-list is
\* granted at the time of the release; the clock never advances from a state
\* in which a pool has a free unit and a non-empty wait-list.
WorkConserving ==
    /\ [](status = "running" =>
            \A p \in Pools :
                (Free(p) > 0 /\ put_queue[p] # <<>>) =>
                    /\ Cardinality(PendingReleases(p)) >= Free(p)
                       \/ Cardinality(PendingReleases(p)) >= Len(put_queue[p])
                    /\ PendingReleases(p) # {})
    /\ [][(status = "running" /\ Idling) => now' = now]_vars
    /\ [](\A c \in Customers, p \in Pools :
            (cust[c].startT[p] # NoTime /\ cust[c].startT[p] > cust[c].reqT[p]) =>
                \E d \in Customers : cust[d].endT[p] = cust[c].startT[p])

\* C16 witness: a customer that was blocked on a pool has the unit another
\* customer released, from the very time of the release.
WorkConserving_witness ==
    \E c \in Customers, d \in Customers, p \in Pools :
        /\ c # d
        /\ cust[c].reqT[p] # NoTime
        /\ cust[c].startT[p] > cust[c].reqT[p]
        /\ cust[d].endT[p] = cust[c].startT[p]
        /\ now > cust[c].startT[p]

\* The event that will resume the customer's process (or its service
\* process) is scheduled.
HasOwnEvent(c) ==
    \E e \in queue :
        /\ e.who = c
        /\ e.kind = (CASE cust[c].pc = "start" -> "InitCustomer"
                      [] cust[c].pc = "request" -> "Request"
                      [] cust[c].sub = "init" -> "InitService"
                      [] cust[c].sub = "timeout" -> "Timeout"
                      [] OTHER -> "ServiceEnded")

\* A customer on its way can go on: its own event is scheduled, or it waits
\* in the wait-list of a pool of which every unit is held or being handed
\* over, by customers whose own events are scheduled.
CanGoOn(c) ==
    \/ cust[c].pc = "seated"
    \/ HasOwnEvent(c)
    \/ /\ cust[c].pc = "request"
       /\ Waiting(c) = {cust[c].stage}
       /\ Free(cust[c].stage) = 0 \/ PendingReleases(cust[c].stage) # {}
       /\ \A h \in users[cust[c].stage] : h # c /\ HasOwnEvent(h)

Seated_or_stopped(k) ==
    \/ status = "stopped"
    \/ k \in Customers /\ cust[k].pc = "seated"

\* The customers followed in the liveness formulas: the first three of a run.
Followed == 0..2

ThisCall == SelectSeq(runlog, LAMBDA r : r.call = calls)

\* best_setup as run r would set it.
SetupOf(r) ==
    [avg_wait_time |-> mean(r.wait_times), wait_times |-> r.wait_times,
     n_cashiers |-> r.params.n_cashiers, n_servers |-> r.params.n_servers,
     n_ushers |-> r.params.n_ushers]

\* The mean of the wait times x is smaller than that of y (both non-empty).
SmallerMean(x, y) == SumSeq(x) * Len(y) < SumSeq(y) * Len(x)

\* Run i has the smallest mean of the runs performed, and is the first such.
FirstMinimum(i) ==
    \A j \in 1..Len(ThisCall) :
        /\ j < i => SmallerMean(ThisCall[i].wait_times, ThisCall[j].wait_times)
        /\ j > i => ~SmallerMean(ThisCall[j].wait_times, ThisCall[i].wait_times)

\* C18: while main loops and when it has returned, best_setup holds the
\* triple, the wait times and the mean of one and the same run, the first in
\* enumeration order among the runs performed whose mean is the minimum.
BestSetupIsFirstMinimum ==
    (calls > 0 /\ mpc \in {"for", "run", "idle"}) =>
        IF ThisCall = <<>>
        THEN best_setup = NoSetup
        ELSE \E i \in 1..Len(ThisCall) :
                /\ FirstMinimum(i)
                /\ best_setup = SetupOf(ThisCall[i])

\* C18 witness: main has returned after runs of which two tie for the
\* smallest mean and another has a larger one.
BestSetupIsFirstMinimum_witness ==
    /\ calls > 0
    /\ mpc = "idle"
    /\ \E i \in 1..Len(ThisCall), j \in 1..Len(ThisCall), k \in 1..Len(ThisCall) :
          /\ i < j
          /\ FirstMinimum(i)
          /\ ~SmallerMean(ThisCall[i].wait_times, ThisCall[j].wait_times)
          /\ ThisCall[i].params # ThisCall[j].params
          /\ SmallerMean(ThisCall[i].wait_times, ThisCall[k].wait_times)

\* The triple main took from the enumeration for the current run.
Triple == Yielded[Len(Yielded) - Len(perms)]

\* C19: the staffing triple reaches the pools unpermuted: the cashier pool
\* has capacity num_cashiers, the usher pool num_ushers and the food-server
\* pool num_servers, for the triple main took from the enumeration as for the
\* arguments of a run started directly, from the moment the theater is built
\* to the end of the run.
CapacitiesUnpermuted ==
    /\ mpc = "run" =>
          params = [n_cashiers |-> Triple[1], n_servers |-> Triple[2], n_ushers |-> Triple[3]]
    /\ (status \in {"running", "stopped", "cut"} /\ arrival_interval # NoTime) =>
          /\ capacity["cashier"] = params.n_cashiers
          /\ capacity["usher"] = params.n_ushers
          /\ capacity["server"] = params.n_servers
    /\ (mpc = "run" /\ arrival_interval # NoTime) =>
          capacity = [cashier |-> Triple[1], server |-> Triple[2], usher |-> Triple[3]]

\* C19 witness: a run of main with more servers than ushers is under way, its
\* theater built.
CapacitiesUnpermuted_witness ==
    /\ mpc = "run"
    /\ Triple[2] > Triple[3]
    /\ capacity["server"] = Triple[2]
    /\ capacity["usher"] = Triple[3]
    /\ now > 0

====
